---- MODULE Spec2Model ----
(***************************************************************************)
(* Model of the `validations` crate (src/src/lib.rs): the error record     *)
(* Error<T>, the error tree Errors<T>, and the AddressBookEntry validator  *)
(* of the crate's test module.                                             *)
(*                                                                         *)
(* Option<X> is a record [some |-> BOOLEAN, v |-> X]; a String that the    *)
(* code inspects character by character is a sequence of one-character     *)
(* strings; a HashMap is a function whose DOMAIN is its key set.           *)
(***************************************************************************)
EXTENDS Integers, Sequences, FiniteSets, TLC

VARIABLES trees, calls, last, pre, nOps,   \* Errors<T> objects and the calls made on them
          error, given, sets,              \* one Error<T> object and the calls made on it
          entry, result, pc                \* one validation pass

vars == <<trees, calls, last, pre, nOps, error, given, sets, entry, result, pc>>
treeVars == <<trees, calls, last, pre, nOps>>
errorVars == <<error, given, sets>>
validateVars == <<entry, result, pc>>

----------------------------------------------------------------------------
(* Bounds *)

MaxOps == 4        \* number of mutating calls made on the Errors objects
MaxSets == 3       \* number of set_details calls made on one Error
MaxNumLen == 2     \* length of PhoneNumber.number
MaxEmailLen == 1   \* length of the Email string
MaxNameLen == 1    \* length of AddressBookEntry.name

----------------------------------------------------------------------------
(* Option *)

None == [some |-> FALSE]
Some(x) == [some |-> TRUE, v |-> x]

----------------------------------------------------------------------------
(* Error<T> *)

Error_new(message) == [details |-> None, message |-> message]

Error_with_details(message, details) == [details |-> Some(details), message |-> message]

details(self) == self.details

set_details_keep(self, d) == IF self.details.some THEN self ELSE [self EXCEPT !.details = Some(d)]
set_details(self, d) == [self EXCEPT !.details = Some(d)]

message(self) == self.message

----------------------------------------------------------------------------
(* Errors<T> *)

Errors_new == [base |-> None, fields |-> None]

add_error_front(self, e) ==
    IF self.base.some
    THEN [self EXCEPT !.base = Some(<<e>> \o self.base.v)]
    ELSE [self EXCEPT !.base = Some(<<e>>)]
add_error(self, e) ==
    IF self.base.some
    THEN [self EXCEPT !.base = Some(Append(self.base.v, e))]
    ELSE [self EXCEPT !.base = Some(<<e>>)]

\* HashMap::insert
insert(map, k, v) == [x \in (DOMAIN map) \cup {k} |-> IF x = k THEN v ELSE map[x]]

\* HashMap::new
HashMap_new == [x \in {} |-> x]

add_field_error_overwrite(self, f, e) ==
    IF self.fields.some
    THEN [self EXCEPT !.fields = Some(insert(self.fields.v, f, add_error(Errors_new, e)))]
    ELSE [self EXCEPT !.fields = Some(insert(HashMap_new, f, add_error(Errors_new, e)))]
add_field_error(self, f, e) ==
    IF self.fields.some
    THEN IF f \in DOMAIN self.fields.v
         THEN [self EXCEPT !.fields = Some([self.fields.v EXCEPT ![f] = add_error(@, e)])]
         ELSE [self EXCEPT !.fields = Some(insert(self.fields.v, f, add_error(Errors_new, e)))]
    ELSE [self EXCEPT !.fields = Some(insert(HashMap_new, f, add_error(Errors_new, e)))]

base(self) == self.base

field_any(self, f) ==
    IF self.fields.some /\ DOMAIN self.fields.v # {}
    THEN Some(self.fields.v[CHOOSE k \in DOMAIN self.fields.v : TRUE])
    ELSE None
field(self, f) ==
    IF self.fields.some
    THEN IF f \in DOMAIN self.fields.v THEN Some(self.fields.v[f]) ELSE None
    ELSE None

is_empty_deep(self) ==
    /\ ~self.base.some
    /\ self.fields.some =>
           \A k \in DOMAIN self.fields.v :
               ~self.fields.v[k].base.some /\ ~self.fields.v[k].fields.some
is_empty_base_only(self) == ~self.base.some
is_empty(self) == ~self.base.some /\ ~self.fields.some

set_field_errors_fresh_map(self, f, errors) ==
    [self EXCEPT !.fields = Some(insert(HashMap_new, f, errors))]
set_field_errors_or_insert(self, f, errors) ==
    IF self.fields.some
    THEN IF f \in DOMAIN self.fields.v
         THEN self
         ELSE [self EXCEPT !.fields = Some(insert(self.fields.v, f, errors))]
    ELSE [self EXCEPT !.fields = Some(insert(HashMap_new, f, errors))]
set_field_errors(self, f, errors) ==
    IF self.fields.some
    THEN [self EXCEPT !.fields = Some(insert(self.fields.v, f, errors))]
    ELSE [self EXCEPT !.fields = Some(insert(HashMap_new, f, errors))]

----------------------------------------------------------------------------
(* The Errors<T> state machine: two Errors objects, `errors` (the tree a    *)
(* validator builds) and `field_errors` (the tree a field's own validate    *)
(* returns), mutated by add_error, add_field_error and set_field_errors.    *)
(* set_field_errors takes its argument by value: the other object is moved  *)
(* into the receiver and its binding starts again from Errors::new().       *)

Objs == {"errors", "field_errors"}
FieldNames == {"name", "email"}
Errs == {Error_new("m1"), Error_with_details("m2", "d1")}

other(t) == IF t = "errors" THEN "field_errors" ELSE "errors"

\* calls made so far on one object
NoCalls == [add_error |-> <<>>, touched |-> {}, any |-> FALSE, anyNonEmpty |-> FALSE]

InitTrees ==
    /\ trees = [t \in Objs |-> Errors_new]
    /\ calls = [t \in Objs |-> NoCalls]
    /\ last = [op |-> "new", target |-> "errors", field |-> "", e |-> None, errors |-> None]
    /\ pre = [t \in Objs |-> Errors_new]
    /\ nOps = 0

AddError(t, e) ==
    /\ nOps < MaxOps
    /\ trees' = [trees EXCEPT ![t] = add_error(@, e)]
    /\ calls' = [calls EXCEPT ![t].add_error = Append(@, e),
                              ![t].any = TRUE,
                              ![t].anyNonEmpty = TRUE]
    /\ last' = [op |-> "add_error", target |-> t, field |-> "", e |-> Some(e), errors |-> None]
    /\ pre' = trees
    /\ nOps' = nOps + 1

AddFieldError(t, f, e) ==
    /\ nOps < MaxOps
    /\ trees' = [trees EXCEPT ![t] = add_field_error(@, f, e)]
    /\ calls' = [calls EXCEPT ![t].touched = @ \cup {f},
                              ![t].any = TRUE,
                              ![t].anyNonEmpty = TRUE]
    /\ last' = [op |-> "add_field_error", target |-> t, field |-> f, e |-> Some(e), errors |-> None]
    /\ pre' = trees
    /\ nOps' = nOps + 1

SetFieldErrors(t, f) ==
    /\ nOps < MaxOps
    /\ trees' = [trees EXCEPT ![t] = set_field_errors(@, f, trees[other(t)]),
                              ![other(t)] = Errors_new]
    /\ calls' = [calls EXCEPT ![t].touched = @ \cup {f},
                              ![t].any = TRUE,
                              ![t].anyNonEmpty = @ \/ ~is_empty(trees[other(t)]),
                              ![other(t)] = NoCalls]
    /\ last' = [op |-> "set_field_errors", target |-> t, field |-> f, e |-> None,
                errors |-> Some(trees[other(t)])]
    /\ pre' = trees
    /\ nOps' = nOps + 1

NextTrees ==
    \/ \E t \in Objs, e \in Errs : AddError(t, e)
    \/ \E t \in Objs, f \in FieldNames, e \in Errs : AddFieldError(t, f, e)
    \/ \E t \in Objs, f \in FieldNames : SetFieldErrors(t, f)

----------------------------------------------------------------------------
(* The Error<T> state machine: one Error object, constructed by new or     *)
(* with_details and then changed by set_details.                           *)

Messages == {"m1", "m2", "m3"}
Details == {"d1", "d2"}

InitError ==
    /\ error = Error_new("m1")
    /\ given = [message |-> "m1", details |-> None]
    /\ sets = <<>>

New(m) ==
    /\ error' = Error_new(m)
    /\ given' = [message |-> m, details |-> None]
    /\ sets' = <<>>

WithDetails(m, d) ==
    /\ error' = Error_with_details(m, d)
    /\ given' = [message |-> m, details |-> Some(d)]
    /\ sets' = <<>>

SetDetails(d) ==
    /\ Len(sets) < MaxSets
    /\ error' = set_details(error, d)
    /\ sets' = Append(sets, d)
    /\ UNCHANGED given

NextError ==
    \/ \E m \in Messages : New(m)
    \/ \E m \in Messages, d \in Details : WithDetails(m, d)
    \/ \E d \in Details : SetDetails(d)


----------------------------------------------------------------------------
(* The validators of the test module.  Result<(), Errors> is               *)
(* [ok |-> TRUE] or [ok |-> FALSE, err |-> tree].                          *)

Ok == [ok |-> TRUE]
Err(errors) == [ok |-> FALSE, err |-> errors]

Digits == {"0", "1", "2", "3", "4", "5", "6", "7", "8", "9"}

\* str::contains for a one-character pattern
contains(str, c) == \E i \in 1..Len(str) : str[i] = c

\* str::replace(c, "") for a one-character pattern
IsNot(c, x) == x # c
replace_by_empty(str, c) == SelectSeq(str, LAMBDA x : IsNot(c, x))

\* char::is_digit(10)
is_digit(c) == c \in Digits

Email_validate_always_ok(self) == Ok
Email_validate(self) ==
    IF ~contains(self, "@")
    THEN Err(add_error(Errors_new, Error_new("must contain an @ symbol")))
    ELSE Ok

full_number(self) == self.area_code \o <<"-">> \o self.number

check_digits(number) == SelectSeq(replace_by_empty(number, "-"), LAMBDA c : ~is_digit(c))

InvalidCharacters(chars) == [invalid_characters |-> chars]

\* one iteration of the loop over numbers_to_check
check_number(errors, field_name, fld) ==
    IF fld.some
    THEN LET invalid_characters == check_digits(full_number(fld.v))
         IN  IF Len(invalid_characters) > 0
             THEN add_field_error(errors, field_name,
                      Error_with_details("has invalid characters",
                                         InvalidCharacters(invalid_characters)))
             ELSE errors
    ELSE errors

AddressBookEntry_validate_first_only(self) ==
    IF ~self.cell_number.some /\ ~self.home_number.some
    THEN Err(add_error(Errors_new, Error_new("at least one phone number is required")))
    ELSE IF Len(self.name) = 0
    THEN Err(add_field_error(Errors_new, "name", Error_new("can't be blank")))
    ELSE LET e3 == check_number(check_number(Errors_new, "home_number", self.home_number),
                                "cell_number", self.cell_number)
         IN  IF is_empty(e3) THEN Ok ELSE Err(e3)
AddressBookEntry_validate(self) ==
    LET e0 == Errors_new
        e1 == IF ~self.cell_number.some /\ ~self.home_number.some
              THEN add_error(e0, Error_new("at least one phone number is required"))
              ELSE e0
        e2 == IF Len(self.name) = 0
              THEN add_field_error(e1, "name", Error_new("can't be blank"))
              ELSE e1
        e3 == IF self.email.some
              THEN LET r == Email_validate(self.email.v)
                   IN  IF ~r.ok THEN set_field_errors(e2, "email", r.err) ELSE e2
              ELSE e2
        e4 == check_number(e3, "home_number", self.home_number)
        e5 == check_number(e4, "cell_number", self.cell_number)
    IN  IF is_empty(e5) THEN Ok ELSE Err(e5)

\* all strings over an alphabet, up to a length
Strs(alphabet, n) == UNION {[1..k -> alphabet] : k \in 0..n}

PhoneChars == {"5", "-", "x"}
AreaCodes == {<<"5">>, <<"x">>}
EmailChars == {"a", "@"}
NameChars == {"R", " "}

PhoneNumbers == [area_code : AreaCodes, number : Strs(PhoneChars, MaxNumLen)]
Emails == Strs(EmailChars, MaxEmailLen)
Names == Strs(NameChars, MaxNameLen)

Optional(S) == {None} \cup {Some(x) : x \in S}

Entries == [cell_number : Optional(PhoneNumbers), email : Optional(Emails),
            home_number : Optional(PhoneNumbers), name : Names]

InitValidate ==
    /\ entry \in Entries
    /\ result = Ok
    /\ pc = "start"

Validate ==
    /\ pc = "start"
    /\ result' = AddressBookEntry_validate(entry)
    /\ pc' = "done"
    /\ UNCHANGED entry

NextValidate == Validate

\* the entry of the valid_value test, cut to the model's alphabets
IdleValidate ==
    /\ entry = [cell_number |-> None, email |-> Some(<<"@">>),
                home_number |-> Some([area_code |-> <<"5">>, number |-> <<"5">>]),
                name |-> <<"R">>]
    /\ result = Ok
    /\ pc = "start"

----------------------------------------------------------------------------
(* Specifications *)

Init == InitTrees /\ InitError /\ IdleValidate
Next == NextTrees /\ UNCHANGED <<errorVars, validateVars>>
Spec == Init /\ [][Next]_vars

InitE == InitTrees /\ InitError /\ IdleValidate
NextE == NextError /\ UNCHANGED <<treeVars, validateVars>>
SpecError == InitE /\ [][NextE]_vars

InitV == InitTrees /\ InitError /\ InitValidate
NextV == NextValidate /\ UNCHANGED <<treeVars, errorVars>>
SpecValidate == InitV /\ [][NextV]_vars


----------------------------------------------------------------------------
(* Properties *)

AllNames == FieldNames \cup {"home_number"}

keys(self) == IF self.fields.some THEN DOMAIN self.fields.v ELSE {}

C3_BaseIsAddErrorHistory ==
    \A t \in Objs :
        /\ base(trees[t]).some <=> calls[t].add_error # <<>>
        /\ base(trees[t]).some =>
              /\ base(trees[t]).v = calls[t].add_error
              /\ Len(base(trees[t]).v) > 0

C3_Witness ==
    \E t \in Objs :
        /\ Len(calls[t].add_error) = 2
        /\ calls[t].add_error[1] # calls[t].add_error[2]
        /\ calls[t].touched # {}
        /\ last.op = "add_error"
        /\ last.target = t
        /\ keys(pre[t]) # {}

C5_AddFieldErrorOverwritesSet ==
    [][(/\ last.op = "set_field_errors"
        /\ last'.op = "add_field_error"
        /\ last'.target = last.target
        /\ last'.field = last.field)
       => field(trees'[last'.target], last'.field) = Some(add_error(Errors_new, last'.e.v))]_vars

\* C6: after set_field_errors(f, T), field(f) is exactly T; whatever nested
\* tree was present for f before is discarded entirely.
C6_SetFieldErrorsReplaces ==
    last.op = "set_field_errors" =>
        field(trees[last.target], last.field) = Some(last.errors.v)

C6_Witness ==
    /\ last.op = "set_field_errors"
    /\ field(pre[last.target], last.field).some
    /\ field(pre[last.target], last.field).v.base.some
    /\ field(pre[last.target], last.field).v # last.errors.v

\* C7: field(name) is present exactly for the names that were the field
\* argument of an add_field_error or set_field_errors call on that tree;
\* calls on another name, or on a nested tree's field of the same name,
\* never make field(name) present.
C7_FieldPresentIffTouched ==
    \A t \in Objs : \A name \in AllNames :
        field(trees[t], name).some <=> name \in calls[t].touched

C7_Witness ==
    \E t \in Objs :
        /\ calls[t].touched = {"name"}
        /\ field(trees[t], "name").some
        /\ field(field(trees[t], "name").v, "email").some
        /\ ~field(trees[t], "email").some

\* C8: details() is absent after new(m), d after with_details(m, d), and
\* the payload of the last set_details call after any set_details calls;
\* message() is always the m given at construction.
C8_DetailsRoundTrip ==
    /\ details(error) = IF sets = <<>> THEN given.details ELSE Some(sets[Len(sets)])
    /\ message(error) = given.message

C8_Witness ==
    /\ given.details.some
    /\ Len(sets) >= 2
    /\ sets[Len(sets)] # sets[Len(sets) - 1]
    /\ sets[Len(sets)] # given.details.v

\* the rules of AddressBookEntry, stated on the entry
HasPhoneNumber(e) == e.cell_number.some \/ e.home_number.some
NameNotBlank(e) == e.name # <<>>
EmailHasAt(e) == e.email.some => \E i \in DOMAIN e.email.v : e.email.v[i] = "@"
OnlyDigitsAndDashes(str) == \A i \in DOMAIN str : str[i] \in Digits \cup {"-"}
NumberOk(p) == p.some => OnlyDigitsAndDashes(p.v.area_code) /\ OnlyDigitsAndDashes(p.v.number)

\* C9: validate() returns success iff the entry satisfies all of its rules;
\* otherwise it returns a non-empty tree holding every violated rule of the
\* pass and no entry for a rule that was not violated.
C9_ValidateReportsEveryViolation ==
    pc = "done" =>
        /\ result.ok <=> /\ HasPhoneNumber(entry)
                         /\ NameNotBlank(entry)
                         /\ EmailHasAt(entry)
                         /\ NumberOk(entry.home_number)
                         /\ NumberOk(entry.cell_number)
        /\ ~result.ok =>
              /\ ~is_empty(result.err)
              /\ base(result.err) =
                    IF HasPhoneNumber(entry) THEN None
                    ELSE Some(<<Error_new("at least one phone number is required")>>)
              /\ field(result.err, "name") =
                    IF NameNotBlank(entry) THEN None
                    ELSE Some(add_error(Errors_new, Error_new("can't be blank")))
              /\ field(result.err, "email") =
                    IF EmailHasAt(entry) THEN None
                    ELSE Some(add_error(Errors_new, Error_new("must contain an @ symbol")))
              /\ field(result.err, "home_number").some <=> ~NumberOk(entry.home_number)
              /\ field(result.err, "cell_number").some <=> ~NumberOk(entry.cell_number)
              /\ \A n \in {"home_number", "cell_number"} :
                    field(result.err, n).some =>
                       /\ ~field(result.err, n).v.fields.some
                       /\ Len(base(field(result.err, n).v).v) = 1
                       /\ message(base(field(result.err, n).v).v[1]) = "has invalid characters"
              /\ keys(result.err) \subseteq {"name", "email", "home_number", "cell_number"}

C9_Witness ==
    /\ pc = "done"
    /\ ~result.ok
    /\ ~NameNotBlank(entry)
    /\ ~EmailHasAt(entry)
    /\ ~NumberOk(entry.home_number)
    /\ ~NumberOk(entry.cell_number)
    /\ keys(result.err) = {"name", "email", "home_number", "cell_number"}

\* C10: add_field_error(f, R) and set_field_errors(f, T) leave the tree's
\* own base and the nested tree of every other field name unchanged;
\* add_error(R) leaves the field mapping unchanged; the set of field names
\* present never shrinks under any operation.
C10_Frame ==
    LET t == last.target IN
    /\ last.op \in {"add_field_error", "set_field_errors"} =>
          /\ base(trees[t]) = base(pre[t])
          /\ \A g \in AllNames \ {last.field} : field(trees[t], g) = field(pre[t], g)
    /\ last.op = "add_error" => trees[t].fields = pre[t].fields
    /\ last.op # "new" => keys(pre[t]) \subseteq keys(trees[t])

C10_Witness ==
    /\ last.op = "set_field_errors"
    /\ base(pre[last.target]).some
    /\ keys(pre[last.target]) = FieldNames
    /\ keys(trees[last.target]) = FieldNames


====
